---------------------------- MODULE Spec2Model ----------------------------
(***************************************************************************)
(* Model of the potential evaluation code of the mlip-2023 tutorial:       *)
(* the LennardJones module (3-LJ-baseline notebook), the SOAPModel, and    *)
(* the ExportWrapper that adds the two energies, driven by a hosting       *)
(* engine that issues one evaluation call after another.                   *)
(*                                                                         *)
(* Floating point values are modelled by exact rationals extended with     *)
(* the IEEE special values: <<n, d>> with d > 0 is the rational n/d in     *)
(* lowest terms, <<1, 0>> is +inf, <<-1, 0>> is -inf and <<0, 0>> is NaN.   *)
(* Rounding is not modelled.                                               *)
(***************************************************************************)
EXTENDS Integers, Sequences, FiniteSets, TLC

-----------------------------------------------------------------------------
(* Bounds of the model *)

\* the longest neighbors list the engine hands over
MaxPairs == 2

MaxFrames == 2

MaxExecutions == 2

MaxAtoms == 3

\* for epoch in range(start, start + 15), of the first training notebook
Notebook1Epochs == 15

\* for epoch in range(start, start + 75), of the notebook of the baseline
Notebook3Epochs == 75

-----------------------------------------------------------------------------
(* Floating point arithmetic *)

NaN == <<0, 0>>

PosInf == <<1, 0>>

NegInf == <<-1, 0>>

Abs(n) == IF n < 0 THEN -n ELSE n

Sign(n) == IF n < 0 THEN -1 ELSE IF n > 0 THEN 1 ELSE 0

RECURSIVE GCD(_, _)
GCD(a, b) == IF b = 0 THEN a ELSE GCD(b, a % b)

Norm(n, d) ==
    LET g == GCD(Abs(n), d) IN <<n \div g, d \div g>>

Float(n) == <<n, 1>>

IsNaN(x) == x = NaN

IsInf(x) == x[2] = 0 /\ x[1] # 0

IsFinite(x) == x[2] > 0

FNeg(x) == <<-x[1], x[2]>>

FAdd(a, b) ==
    IF IsNaN(a) \/ IsNaN(b) THEN NaN
    ELSE IF IsInf(a) /\ IsInf(b) THEN (IF a = b THEN a ELSE NaN)
    ELSE IF IsInf(a) THEN a
    ELSE IF IsInf(b) THEN b
    ELSE IF a[2] = 1 /\ b[2] = 1 THEN <<a[1] + b[1], 1>>
    ELSE LET g == GCD(a[2], b[2])
             l == (a[2] \div g) * b[2]
         IN  Norm(a[1] * (l \div a[2]) + b[1] * (l \div b[2]), l)

FSub(a, b) == FAdd(a, FNeg(b))

FAbs(x) == <<Abs(x[1]), x[2]>>

\* a > b; every comparison with NaN is false
FGreater(a, b) ==
    IF IsNaN(a) \/ IsNaN(b) THEN FALSE
    ELSE IF IsInf(a) \/ IsInf(b) THEN a # b /\ (a = PosInf \/ b = NegInf)
    ELSE a[1] * b[2] > b[1] * a[2]

FMul(a, b) ==
    IF IsNaN(a) \/ IsNaN(b) THEN NaN
    ELSE IF IsInf(a) \/ IsInf(b)
         THEN (IF a[1] = 0 \/ b[1] = 0 THEN NaN
               ELSE <<Sign(a[1]) * Sign(b[1]), 0>>)
    ELSE IF a[2] = 1 /\ b[2] = 1 THEN <<a[1] * b[1], 1>>
    ELSE LET g1 == GCD(Abs(a[1]), b[2])
             g2 == GCD(Abs(b[1]), a[2])
         IN  Norm((a[1] \div g1) * (b[1] \div g2),
                  (a[2] \div g2) * (b[2] \div g1))

FDiv(a, b) ==
    IF IsNaN(a) \/ IsNaN(b) THEN NaN
    ELSE IF IsInf(b) THEN (IF IsInf(a) THEN NaN ELSE Float(0))
    ELSE IF b[1] = 0
         THEN (IF a[1] = 0 THEN NaN ELSE <<Sign(a[1]), 0>>)
    ELSE FMul(a, <<Sign(b[1]) * b[2], Abs(b[1])>>)

RECURSIVE IPow(_, _)
IPow(n, k) == IF k = 0 THEN 1 ELSE n * IPow(n, k - 1)

\* x ** k for an integer k >= 0: a fraction in lowest terms stays in lowest
\* terms, inf ** k is inf for k > 0, and x ** 0 is 1 for every x
FPow(x, k) == <<IPow(x[1], k), IPow(x[2], k)>>

ISqrt(n) == CHOOSE k \in 0..n : k * k = n

FSqrt(x) ==
    IF IsNaN(x) \/ x[1] < 0 THEN NaN
    ELSE IF IsInf(x) THEN PosInf
    ELSE <<ISqrt(x[1]), ISqrt(x[2])>>

-----------------------------------------------------------------------------
(* Vectors of three floats, as torch tensors of shape (3,) and (3, 3) *)

Axes == 1..3

VAdd(u, v) == [a \in Axes |-> FAdd(u[a], v[a])]

VSub(u, v) == [a \in Axes |-> FSub(u[a], v[a])]

\* v @ m for a row vector v and a 3x3 matrix m: sum over a of v[a] * m[a]
VecMat(v, m) ==
    [b \in Axes |-> FAdd(FAdd(FMul(v[1], m[1][b]), FMul(v[2], m[2][b])),
                         FMul(v[3], m[3][b]))]

Dot(u, v) ==
    FAdd(FAdd(FMul(u[1], v[1]), FMul(u[2], v[2])), FMul(u[3], v[3]))

ToFloat(v) == [a \in Axes |-> Float(v[a])]

-----------------------------------------------------------------------------
(* Inputs the hosting engine and the notebook draw from *)

\* an optional value: None, or Some(x)
None == <<>>

Some(x) == <<x>>

\* per-species Lennard-Jones parameters handed to LennardJones.__init__
SigmaChoices == {0, 2}

EpsilonChoices == {1, 4}

CutoffChoices == {1, 2}

KeyChoices == {{1}, {1, 6}, {1, 6, 8}}

AllParameterChoices ==
    UNION {[K -> [sigma : {Float(s) : s \in SigmaChoices},
                  epsilon : {Float(e) : e \in EpsilonChoices}]]
           : K \in KeyChoices}

\* the tables of the models the engine drives: every species differs from
\* the others in sigma or in epsilon
ParameterChoices ==
    {params \in AllParameterChoices :
        /\ DOMAIN params = {1, 6, 8}
        /\ params[1] = [sigma |-> Float(2), epsilon |-> Float(1)]
        /\ params[6].sigma = Float(0)
        /\ params[8] = [sigma |-> Float(2), epsilon |-> Float(4)]}

\* species codes an atom of a frame can carry; 9 is in no parameter table
AtomSpecies == {1, 6, 9}

\* number of atoms of a frame
AtomCounts == {1, 2}

ZeroVector == <<0, 0, 0>>

PositionChoices == {<<0, 0, 0>>, <<1, 0, 0>>, <<0, 2, 0>>}

ZeroCell == <<ZeroVector, ZeroVector, ZeroVector>>

CellChoices == {ZeroCell, <<<<2, 0, 0>>, <<1, 2, 0>>, <<0, 0, 2>>>>}

ShiftChoices == {<<0, 0, 0>>, <<0, 1, 0>>, <<0, -1, 0>>}

\* separations whose pairs the engine lists
SeparationChoices == {Float(0), Float(1), Float(2)}

OutputChoices == {{}, {"other"}, {"energy"}}

Atoms(system) == DOMAIN system.species

\* selected_atoms: None, or a list of distinct atom indices in any order
SelectedAtomsChoices(n) ==
    {None} \cup
    {Some(sel) : sel \in
        {s \in UNION {[1..m -> 0..(n - 1)] : m \in 0..n} :
            \A a, b \in DOMAIN s : a # b => s[a] # s[b]}}

-----------------------------------------------------------------------------
(* LennardJones.__init__ *)

\* variant: the first species' sigma is taken for the pair
CombineSigmaFirst(sigma_i, sigma_j) == sigma_i

\* Lorentz-Berthelot combination rules
CombineSigma(sigma_i, sigma_j) == FDiv(FAdd(sigma_i, sigma_j), Float(2))

\* variant: the arithmetic mean in place of the geometric one
CombineEpsilonMean(epsilon_i, epsilon_j) ==
    FDiv(FAdd(epsilon_i, epsilon_j), Float(2))

CombineEpsilon(epsilon_i, epsilon_j) == FSqrt(FMul(epsilon_i, epsilon_j))

\* 4 * epsilon * ((sigma / r) ** 12 - (sigma / r) ** 6)
LJEnergy(sigma, epsilon, r) ==
    FMul(FMul(Float(4), epsilon),
         FSub(FPow(FDiv(sigma, r), 12), FPow(FDiv(sigma, r), 6)))

\* variant: the prefactor 4 is missing from the shift
EnergyAtCutoffUnscaled(sigma, epsilon, cutoff) ==
    FMul(epsilon, FSub(FPow(FDiv(sigma, cutoff), 12),
                       FPow(FDiv(sigma, cutoff), 6)))

EnergyAtCutoff(sigma, epsilon, cutoff) == LJEnergy(sigma, epsilon, cutoff)

\* the list [sigma, epsilon, energy_at_cutoff] stored for one pair of species
PairEntry(p_i, p_j, cutoff) ==
    LET sigma == CombineSigma(p_i.sigma, p_j.sigma)
        epsilon == CombineEpsilon(p_i.epsilon, p_j.epsilon)
    IN  <<sigma, epsilon, EnergyAtCutoff(sigma, epsilon, cutoff)>>

\* variant: the request is made for a full list
NeighborsListOptionsFull(cutoff, full_list) ==
    [cutoff |-> cutoff, full_list |-> TRUE]

NeighborsListOptions(cutoff, full_list) ==
    [cutoff |-> cutoff, full_list |-> full_list]

LJInit(cutoff, params) ==
    [cutoff |-> Float(cutoff),
     neighbors |-> NeighborsListOptions(Float(cutoff), FALSE),
     lj_params |-> [s_i \in DOMAIN params |->
                      [s_j \in DOMAIN params |->
                          PairEntry(params[s_i], params[s_j], Float(cutoff))]]]

requested_neighbors_lists(self) == <<self.neighbors>>

-----------------------------------------------------------------------------
(* Systems and the neighbors lists the engine attaches to them *)

\* variant: positions[j] + S @ cell, the first atom taken at the origin
DistanceFromOrigin(system, pair) ==
    VAdd(ToFloat(system.positions[pair.second_atom]),
         VecMat(ToFloat(pair.cell_shift),
                [a \in Axes |-> ToFloat(system.cell[a])]))

\* positions[j] - positions[i] + S @ cell
Distance(system, pair) ==
    VAdd(VSub(ToFloat(system.positions[pair.second_atom]),
              ToFloat(system.positions[pair.first_atom])),
         VecMat(ToFloat(pair.cell_shift),
                [a \in Axes |-> ToFloat(system.cell[a])]))

R2(system, pair) == LET distance == Distance(system, pair)
                    IN  Dot(distance, distance)

\* the pairs an engine can list for a frame: a pair of distinct atoms, or an
\* atom and one of its periodic images, at one of the listed separations
CandidatePairs(species, positions, cell) ==
    LET system == [species |-> species, positions |-> positions, cell |-> cell]
    IN  {pair \in [first_atom : DOMAIN species, second_atom : DOMAIN species,
                   cell_shift : ShiftChoices] :
            /\ pair.first_atom # pair.second_atom \/ pair.cell_shift # ZeroVector
            /\ cell = ZeroCell => pair.cell_shift = ZeroVector
            /\ \E r \in SeparationChoices : R2(system, pair) = FMul(r, r)}

NeighborsLists(species, positions, cell) ==
    UNION {[1..m -> CandidatePairs(species, positions, cell)] : m \in 0..MaxPairs}

-----------------------------------------------------------------------------
(* Output records *)

EmptyDict == [name \in {} |-> NaN]

\* TensorBlock(values=v.reshape(1, 1), samples=Labels("_", [[0]]),
\*             components=[], properties=Labels("energy", [[0]]))
EnergyBlock(v) ==
    [values |-> <<<<v>>>>,
     samples |-> [names |-> <<"_">>, values |-> <<<<0>>>>],
     components |-> <<>>,
     properties |-> [names |-> <<"energy">>, values |-> <<<<0>>>>]]

EnergyDict(v) == [name \in {"energy"} |-> EnergyBlock(v)]

Returned(value) == [kind |-> "return", value |-> value]

Raised(error) == [kind |-> "raise", error |-> error]

NoResult == [kind |-> "none"]

-----------------------------------------------------------------------------
(* SOAPModel *)

\* per-atom output of soap_nn, a function of the centre's species here
SoapNN(model, system, atom) == Float(model.weights[system.species[atom]])

\* variant: the selection is not applied, every atom is a centre
CentersAll(system, selected_samples) == Atoms(system)

\* the centres rascaline computes: all atoms, or those of selected_samples
Centers(system, selected_samples) ==
    IF selected_samples = None THEN Atoms(system)
    ELSE {atom \in Atoms(system) :
            \E a \in DOMAIN selected_samples[1].values :
                selected_samples[1].values[a] = <<atom>>}

RECURSIVE SumOver(_, _, _, _)
SumOver(model, system, centers, acc) ==
    IF centers = {} THEN acc
    ELSE LET atom == CHOOSE a \in centers : \A b \in centers : a <= b
         IN  SumOver(model, system, centers \ {atom},
                     FAdd(acc, SoapNN(model, system, atom)))

\* SOAPModel.forward as the training notebook defines it: one row per
\* system, energies[i] = energies_per_atom.sum(), returned as they are
SOAPEnergies(model, systems, selected_samples) ==
    [i \in DOMAIN systems |->
        SumOver(model, systems[i], Centers(systems[i], selected_samples),
                Float(0))]

\* SOAPModel.forward: one row per system, energies + self.energy_offset
SOAPForward(model, systems, selected_samples) ==
    [i \in DOMAIN systems |->
        FAdd(SumOver(model, systems[i],
                     Centers(systems[i], selected_samples), Float(0)),
             Float(model.energy_offset))]

-----------------------------------------------------------------------------
(* State *)

VARIABLES
    cutoff,           \* the arguments LennardJones.__init__ was called with
    parameters,
    lj,               \* the LennardJones module
    model,            \* the SOAPModel
    pc,               \* where the current evaluation call stands
    target,           \* the module the engine calls: "lj" or "wrapper"
    system,           \* the arguments of the current call
    run_options,
    reads,            \* what LennardJones.forward has read from the system
    list_request,     \* the request it passed to system.get_neighbors_list
    selected_atoms,   \* locals of LennardJones.forward
    k,
    total_energy,
    lj_calls,         \* invocations of each sub-model within the current call
    nn_calls,
    outputs,          \* locals of ExportWrapper.forward
    selected_samples,
    result,           \* what the call returned or raised
    first_call,       \* the first call the engine completed, for comparison
    calls,            \* calls of LennardJones.forward that run concurrently
    accumulators,     \* ... and the total_energy tensor each of them created
    frames,           \* the training notebook: its dataset,
    first_energy,     \* the prediction for frames[:1],
    notebook,         \* and the cell it has reached
    epoch,            \* globals of the training cell
    start,
    train,            \* the run of the training cell, and what it has done
    frame,            \* the LAMMPS notebook: the structure it simulates,
    lammps            \* and LAMMPS going through the input script

vars == <<cutoff, parameters, lj, model, pc, target, system, run_options,
          reads, list_request, selected_atoms, k, total_energy, lj_calls, nn_calls,
          outputs, selected_samples, result, first_call, calls,
          accumulators, frames, first_energy, notebook, epoch, start, train,
          frame, lammps>>

\* what the evaluation code never touches
loop == <<epoch, start, train>>

simulation == <<frame, lammps>>

training == <<frames, first_energy, notebook, loop, simulation>>

aside == <<first_call, calls, accumulators, training>>

NoSystem == [species |-> <<>>, positions |-> <<>>, cell |-> ZeroCell,
             neighbors |-> <<>>]

NoOptions == [outputs |-> {}, selected_atoms |-> None]

\* SOAPModel(SOAP_PARAMETERS, species=[1, 6, 8], energy_offset=energies.mean())
ModelChoices ==
    {[energy_offset |-> -3, species |-> {1, 6, 8},
      weights |-> [s \in AtomSpecies |-> s - 4]]}

\* the modules after their construction
Constructed(choices) ==
    /\ cutoff \in CutoffChoices
    /\ parameters \in choices
    /\ lj = LJInit(cutoff, parameters)
    /\ model \in ModelChoices

\* no call in progress
NoCall ==
    /\ pc = "idle"
    /\ target = "none"
    /\ system = NoSystem
    /\ run_options = NoOptions
    /\ reads = {}
    /\ list_request = None
    /\ selected_atoms = None
    /\ k = 0
    /\ total_energy = None
    /\ lj_calls = 0
    /\ nn_calls = 0
    /\ outputs = EmptyDict
    /\ selected_samples = None
    /\ result = NoResult

\* the cell before the training cell: epoch = -1
NoTraining(n) ==
    [n |-> n, pc |-> "idle", next |-> 0, steps |-> <<>>, printed |-> <<>>,
     runs |-> 0]

NoLoop ==
    /\ epoch = -1
    /\ start = None
    /\ train = NoTraining(0)

\* LAMMPS before the data file is written
NoLammps ==
    [pc |-> "write", line |-> 1, ntypes |-> 0, types |-> <<>>,
     masses |-> <<>>, pair_style |-> None, coeffs |-> <<>>, species |-> <<>>]

NoSimulation ==
    /\ frame = <<>>
    /\ lammps = NoLammps

\* the training notebook is not open
NoNotebook ==
    /\ frames = <<>>
    /\ first_energy = <<>>
    /\ notebook = "closed"
    /\ NoLoop
    /\ NoSimulation

InitWith(choices) ==
    /\ Constructed(choices)
    /\ NoCall
    /\ first_call = None
    /\ calls = <<>>
    /\ accumulators = <<>>
    /\ NoNotebook

Init == InitWith(ParameterChoices)

-----------------------------------------------------------------------------
(* The engine starts an evaluation call *)

\* the frames the engine evaluates, each with the neighbors list it computed
Systems ==
    UNION {
        UNION {
            {[species |-> species, positions |-> positions, cell |-> cell,
              neighbors |-> neighbors] :
                neighbors \in NeighborsLists(species, positions, cell)}
            : species \in [0..(n - 1) -> AtomSpecies],
              positions \in {p \in [0..(n - 1) -> PositionChoices] :
                               p[0] = ZeroVector},
              cell \in CellChoices}
        : n \in AtomCounts}

RunOptions(sys) ==
    [outputs : OutputChoices,
     selected_atoms : SelectedAtomsChoices(Cardinality(Atoms(sys)))]

\* the fresh frame of a call: its arguments, and locals not yet assigned
Frame(t, sys, options) ==
    /\ target' = t
    /\ system' = sys
    /\ run_options' = options
    /\ pc' = t
    /\ lj_calls' = IF t = "lj" THEN 1 ELSE 0
    /\ nn_calls' = 0
    /\ reads' = {}
    /\ list_request' = None
    /\ selected_atoms' = None
    /\ k' = 0
    /\ total_energy' = None
    /\ outputs' = EmptyDict
    /\ selected_samples' = None
    /\ result' = NoResult

\* the stored table with every energy at the cutoff cleared
ClearedShifts(self) ==
    [self EXCEPT !.lj_params =
        [s_i \in DOMAIN self.lj_params |->
            [s_j \in DOMAIN self.lj_params[s_i] |->
                <<self.lj_params[s_i][s_j][1], self.lj_params[s_i][s_j][2],
                  Float(0)>>]]]

\* variant: a call through the wrapper clears the shifts stored on the
\* LennardJones module it shares with direct calls
CallClearingShifts(t, sys, options) ==
    /\ Frame(t, sys, options)
    /\ lj' = IF t = "wrapper" THEN ClearedShifts(lj) ELSE lj
    /\ UNCHANGED <<aside, cutoff, parameters, model>>

\* variant: a call stores the cutoff anew, as a list request for full lists
CallStoringRequest(t, sys, options) ==
    /\ Frame(t, sys, options)
    /\ lj' = [lj EXCEPT !.neighbors = [@ EXCEPT !.full_list = TRUE]]
    /\ UNCHANGED <<aside, cutoff, parameters, model>>

\* module(system, run_options) on the module `t`: forward assigns no
\* attribute of self
Call(t, sys, options) ==
    /\ Frame(t, sys, options)
    /\ UNCHANGED <<aside, cutoff, parameters, lj, model>>

EngineCall ==
    /\ pc = "idle"
    /\ \E t \in {"lj", "wrapper"}, sys \in Systems :
         \E options \in RunOptions(sys) : Call(t, sys, options)

\* the locals of a call are gone once it is over
Discard ==
    /\ pc' = "idle"
    /\ target' = "none"
    /\ system' = NoSystem
    /\ run_options' = NoOptions
    /\ reads' = {}
    /\ list_request' = None
    /\ selected_atoms' = None
    /\ k' = 0
    /\ total_energy' = None
    /\ lj_calls' = 0
    /\ nn_calls' = 0
    /\ outputs' = EmptyDict
    /\ selected_samples' = None
    /\ result' = NoResult

\* the engine has consumed the result; nothing of the call is kept
EngineDone ==
    /\ pc = "done"
    /\ Discard
    /\ UNCHANGED <<aside, cutoff, parameters, lj, model>>

-----------------------------------------------------------------------------
(* LennardJones.forward *)

\* variant: any requested output opens the gate
LJAnyRequested(options) == options.outputs # {}

\* if "energy" not in run_options.outputs: return {}
LJEnergyRequested(options) == "energy" \in options.outputs

\* variant: the wrapper starts over when the LennardJones module has returned
LJReturnToStart(value) ==
    /\ outputs' = value
    /\ IF target = "lj"
       THEN pc' = "done" /\ result' = Returned(value)
       ELSE pc' = "wrapper" /\ result' = result

\* what the return statement of LennardJones.forward hands to its caller
LJReturnTo(value) ==
    /\ outputs' = value
    /\ IF target = "lj"
       THEN pc' = "done" /\ result' = Returned(value)
       ELSE pc' = "wrapper_nn" /\ result' = result

\* the gate, and the reads before the loop over pairs
LJForwardEnter ==
    /\ pc = "lj"
    /\ IF ~LJEnergyRequested(run_options)
       THEN /\ LJReturnTo(EmptyDict)
            /\ UNCHANGED <<reads, list_request, selected_atoms, k, total_energy>>
       ELSE /\ reads' = {"neighbors", "cell", "positions", "species"}
            /\ list_request' = Some(lj.neighbors)
            /\ selected_atoms' =
                 IF run_options.selected_atoms = None
                 THEN [a \in 1..Cardinality(Atoms(system)) |-> a - 1]
                 ELSE run_options.selected_atoms[1]
            /\ total_energy' = Float(0)
            /\ k' = 1
            /\ pc' = "lj_loop"
            /\ UNCHANGED <<outputs, result>>
    /\ UNCHANGED <<aside, cutoff, parameters, lj, model, target, system, run_options,
                   lj_calls, nn_calls, selected_samples>>

\* self._lj_params[int(species[i])][int(species[j])]; a key that is not in
\* the dictionary raises KeyError
Lookup(self, sys, pair) ==
    LET s_i == sys.species[pair.first_atom]
        s_j == sys.species[pair.second_atom]
    IN  IF s_i \notin DOMAIN self.lj_params THEN [found |-> FALSE]
        ELSE IF s_j \notin DOMAIN self.lj_params[s_i] THEN [found |-> FALSE]
        ELSE [found |-> TRUE, entry |-> self.lj_params[s_i][s_j]]

\* variant: a pair counts only when its first atom is one of selected_atoms
PairTermSelected(self, sys, selected, pair) ==
    LET entry == Lookup(self, sys, pair).entry
        r == FSqrt(R2(sys, pair))
    IN  IF \E a \in DOMAIN selected : selected[a] = pair.first_atom
        THEN FSub(LJEnergy(entry[1], entry[2], r), entry[3])
        ELSE Float(0)

\* variant: the energy at the cutoff is not subtracted
PairTermUnshifted(self, sys, selected, pair) ==
    LET entry == Lookup(self, sys, pair).entry
    IN  LJEnergy(entry[1], entry[2], FSqrt(R2(sys, pair)))

\* variant: total_energy = e_ij - shift, the sum so far is dropped
AccumulateLast(total, term) == term

\* total_energy += e_ij - shift
Accumulate(total, term) == FAdd(total, term)

\* e_ij - shift for one pair
PairTerm(self, sys, selected, pair) ==
    LET entry == Lookup(self, sys, pair).entry
        sigma == entry[1]
        epsilon == entry[2]
        shift == entry[3]
        r == FSqrt(R2(sys, pair))
    IN  FSub(LJEnergy(sigma, epsilon, r), shift)

\* one iteration of the loop over pairs
LJForwardPair ==
    /\ pc = "lj_loop"
    /\ k <= Len(system.neighbors)
    /\ LET pair == system.neighbors[k]
       IN  IF ~Lookup(lj, system, pair).found
           THEN /\ pc' = "done"
                /\ result' = Raised("KeyError")
                /\ UNCHANGED <<k, total_energy>>
           ELSE /\ total_energy' =
                     Accumulate(total_energy,
                                PairTerm(lj, system, selected_atoms, pair))
                /\ k' = k + 1
                /\ UNCHANGED <<pc, result>>
    /\ UNCHANGED <<aside, cutoff, parameters, lj, model, target, system, run_options,
                   reads, list_request, selected_atoms, lj_calls, nn_calls, outputs,
                   selected_samples>>

\* variant: without any pair, nothing is returned
LJForwardReturnNothing ==
    /\ pc = "lj_loop"
    /\ k > Len(system.neighbors)
    /\ LJReturnTo(IF system.neighbors = <<>> THEN EmptyDict
                  ELSE EnergyDict(total_energy))
    /\ UNCHANGED <<aside, cutoff, parameters, lj, model, target, system, run_options,
                   reads, list_request, selected_atoms, k, total_energy, lj_calls, nn_calls,
                   selected_samples>>

\* the return after the last pair
LJForwardReturn ==
    /\ pc = "lj_loop"
    /\ k > Len(system.neighbors)
    /\ LJReturnTo(EnergyDict(total_energy))
    /\ UNCHANGED <<aside, cutoff, parameters, lj, model, target, system, run_options,
                   reads, list_request, selected_atoms, k, total_energy, lj_calls, nn_calls,
                   selected_samples>>

\* LennardJones.forward as a function of its arguments
RECURSIVE LJLoop(_, _, _, _, _)
LJLoop(self, sys, selected, from, acc) ==
    IF from > Len(sys.neighbors) THEN Returned(EnergyDict(acc))
    ELSE IF ~Lookup(self, sys, sys.neighbors[from]).found
         THEN Raised("KeyError")
         ELSE LJLoop(self, sys, selected, from + 1,
                     Accumulate(acc, PairTerm(self, sys, selected,
                                              sys.neighbors[from])))

LJForward(self, sys, options) ==
    IF ~LJEnergyRequested(options) THEN Returned(EmptyDict)
    ELSE LJLoop(self, sys,
                IF options.selected_atoms = None
                THEN [a \in 1..Cardinality(Atoms(sys)) |-> a - 1]
                ELSE options.selected_atoms[1],
                1, Float(0))

-----------------------------------------------------------------------------
(* ExportWrapper.forward *)

\* variant: any requested output opens the gate
WrapperAnyRequested(options) == options.outputs # {}

\* if "energy" not in run_options.outputs: return {}
WrapperEnergyRequested(options) == "energy" \in options.outputs

\* the gate, then self.lj(system, run_options)
WrapperForwardEnter ==
    /\ pc = "wrapper"
    /\ IF ~WrapperEnergyRequested(run_options)
       THEN /\ pc' = "done"
            /\ result' = Returned(EmptyDict)
            /\ UNCHANGED lj_calls
       ELSE /\ pc' = "lj"
            /\ lj_calls' = lj_calls + 1
            /\ UNCHANGED result
    /\ UNCHANGED <<aside, cutoff, parameters, lj, model, target, system, run_options,
                   reads, list_request, selected_atoms, k, total_energy, nn_calls, outputs,
                   selected_samples>>

\* variant: the selection is not handed on
SelectedSamplesDropped(options) == None

\* Labels("center", torch.IntTensor(selected_atoms).reshape(-1, 1)), or None
SelectedSamples(options) ==
    IF options.selected_atoms = None THEN None
    ELSE Some([names |-> <<"center">>,
               values |-> [a \in DOMAIN options.selected_atoms[1] |->
                             <<options.selected_atoms[1][a]>>]])

\* what self.nn_model(...) can do: return its energies, or raise when the
\* frame holds a species the SOAP model was not built for
NNOutcomes(nn_model, sys, selected) ==
    {Returned(SOAPForward(nn_model, <<sys>>, selected))}
    \cup (IF \E a \in Atoms(sys) : sys.species[a] \notin nn_model.species
          THEN {Raised("RuntimeError")} ELSE {})

\* values=lj_energy.values + nn_energy.reshape(1, 1)
\* variant: the LJ part is returned next to the sum
WrapperEnergyWithParts(lj_energy, nn_energy) ==
    [name \in {"energy", "lj_energy"} |->
        IF name = "energy"
        THEN EnergyBlock(FAdd(lj_energy.values[1][1], nn_energy[1]))
        ELSE lj_energy]

WrapperEnergy(lj_energy, nn_energy) ==
    EnergyDict(FAdd(lj_energy.values[1][1], nn_energy[1]))

\* lj_energy = outputs["energy"], the call of the NN model, and the return
WrapperForwardNN ==
    /\ pc = "wrapper_nn"
    /\ pc' = "done"
    /\ IF "energy" \notin DOMAIN outputs
       THEN /\ result' = Raised("KeyError")
            /\ UNCHANGED <<selected_samples, nn_calls>>
       ELSE /\ selected_samples' = SelectedSamples(run_options)
            /\ nn_calls' = nn_calls + 1
            /\ \E outcome \in NNOutcomes(model, system, selected_samples') :
                 result' = IF outcome.kind = "raise" THEN outcome
                           ELSE Returned(WrapperEnergy(outputs["energy"],
                                                       outcome.value))
    /\ UNCHANGED <<aside, cutoff, parameters, lj, model, target, system, run_options,
                   reads, list_request, selected_atoms, k, total_energy, lj_calls, outputs>>

-----------------------------------------------------------------------------
(* The capabilities declared for the exported wrapper *)

\* variant: oxygen is left out of the declaration
capabilitiesWithoutOxygen ==
    [length_unit |-> "angstrom",
     species |-> {1, 6},
     outputs |-> [name \in {"energy"} |->
                    [quantity |-> "energy", unit |-> "eV", per_atom |-> FALSE]]]

capabilities ==
    [length_unit |-> "angstrom",
     species |-> {1, 6, 8},
     outputs |-> [name \in {"energy"} |->
                    [quantity |-> "energy", unit |-> "eV", per_atom |-> FALSE]]]

-----------------------------------------------------------------------------

Next ==
    \/ EngineCall
    \/ LJForwardEnter
    \/ LJForwardPair
    \/ LJForwardReturn
    \/ WrapperForwardEnter
    \/ WrapperForwardNN
    \/ EngineDone

Spec == Init /\ [][Next]_vars

-----------------------------------------------------------------------------
(* A LennardJones module built from any parameter table, called by the     *)
(* engine on two-atom frames with one listed pair                          *)

InitTable == InitWith(AllParameterChoices)

TableSystems ==
    {[species |-> species, positions |-> positions, cell |-> ZeroCell,
      neighbors |-> <<pair>>] :
        species \in [0..1 -> DOMAIN parameters],
        positions \in {p \in [0..1 -> PositionChoices] :
                         p[0] = ZeroVector /\ p[1] # ZeroVector},
        pair \in {[first_atom |-> 0, second_atom |-> 1, cell_shift |-> ZeroVector],
                  [first_atom |-> 1, second_atom |-> 0, cell_shift |-> ZeroVector]}}

TableCall ==
    /\ pc = "idle"
    /\ \E sys \in TableSystems :
         Call("lj", sys, [outputs |-> {"energy"}, selected_atoms |-> None])

NextTable ==
    \/ TableCall
    \/ LJForwardEnter
    \/ LJForwardPair
    \/ LJForwardReturn
    \/ EngineDone

TableSpec == InitTable /\ [][NextTable]_vars

-----------------------------------------------------------------------------
(* Reference quantities the properties are stated with *)

Requested == "energy" \in run_options.outputs

\* the energy a returned record carries
EnergyOf(res) == res.value["energy"].values[1][1]

\* the atoms named by the caller's selection
SelectedSet(sys, options) ==
    IF options.selected_atoms = None THEN Atoms(sys)
    ELSE {options.selected_atoms[1][a] : a \in DOMAIN options.selected_atoms[1]}

\* the shifted pair terms of the pairs from..Len, last pair first
RECURSIVE LJSumFrom(_, _, _)
LJSumFrom(self, sys, from) ==
    IF from > Len(sys.neighbors) THEN Float(0)
    ELSE FAdd(LJSumFrom(self, sys, from + 1),
              PairTerm(self, sys, <<>>, sys.neighbors[from]))

\* the learned energy of a set of centres
NNEnergyOn(nn_model, sys, atoms) ==
    FAdd(SumOver(nn_model, sys, atoms, Float(0)), Float(nn_model.energy_offset))

-----------------------------------------------------------------------------
C3_WrapperGate ==
    (target = "wrapper" /\ ~Requested)
    => /\ lj_calls = 0 /\ nn_calls = 0
       /\ pc \in {"wrapper", "done"}
       /\ pc = "done" => result = Returned(EmptyDict)

C3_Witness ==
    /\ pc = "done" /\ target = "wrapper"
    /\ run_options.outputs = {"other"}
    /\ Len(system.neighbors) > 0
    /\ result = Returned(EmptyDict)

(* C4: a call of LennardJones.forward that does not request energy returns *)
(* the empty mapping without reading the neighbors list, the positions or  *)
(* the cell and without iterating over a pair.                             *)
C4_LJGate ==
    (target = "lj" /\ ~Requested)
    => /\ reads = {} /\ k = 0 /\ total_energy = None
       /\ pc \in {"lj", "done"}
       /\ pc = "done" => result = Returned(EmptyDict)

C4_Witness ==
    /\ pc = "done" /\ target = "lj"
    /\ run_options.outputs = {"other"}
    /\ Len(system.neighbors) > 0
    /\ result = Returned(EmptyDict) /\ reads = {}

-----------------------------------------------------------------------------
(* The pair energy written out from positions, cell and table              *)

\* pos[j] - pos[i] + S[1] * a + S[2] * b + S[3] * c, the rows of the cell
\* being the lattice vectors a, b, c
RefDisplacement(sys, pair) ==
    [c \in Axes |->
        sys.positions[pair.second_atom][c] - sys.positions[pair.first_atom][c]
        + pair.cell_shift[1] * sys.cell[1][c]
        + pair.cell_shift[2] * sys.cell[2][c]
        + pair.cell_shift[3] * sys.cell[3][c]]

RefSeparation(sys, pair) ==
    LET d == RefDisplacement(sys, pair)
    IN  ISqrt(d[1] * d[1] + d[2] * d[2] + d[3] * d[3])

\* 4 eps ((sigma / r)^12 - (sigma / r)^6)
RefLJ(sigma, epsilon, r) ==
    LET x == FDiv(sigma, r)
        x6 == FMul(FMul(FMul(x, x), FMul(x, x)), FMul(x, x))
    IN  FMul(Float(4), FMul(epsilon, FSub(FMul(x6, x6), x6)))

RefPairEnergy(self, sys, pair) ==
    LET entry == self.lj_params[sys.species[pair.first_atom]]
                               [sys.species[pair.second_atom]]
    IN  FSub(RefLJ(entry[1], entry[2], Float(RefSeparation(sys, pair))),
             entry[3])

RECURSIVE RefSum(_, _, _)
RefSum(self, sys, upto) ==
    IF upto = 0 THEN Float(0)
    ELSE FAdd(RefSum(self, sys, upto - 1),
              RefPairEnergy(self, sys, sys.neighbors[upto]))

\* the species of the one listed pair of a two-atom frame
FirstSpecies == system.species[system.neighbors[1].first_atom]
SecondSpecies == system.species[system.neighbors[1].second_atom]

(* C5: for every ordered pair of species of the table, a pair at the       *)
(* cutoff separation contributes the energy 0.                             *)
C5_ZeroAtCutoff ==
    (pc = "done" /\ result.kind = "return" /\ Requested
        /\ Len(system.neighbors) = 1
        /\ RefSeparation(system, system.neighbors[1]) = cutoff)
    => EnergyOf(result) = Float(0)

C5_Witness ==
    /\ pc = "done" /\ result.kind = "return" /\ Requested
    /\ Len(system.neighbors) = 1
    /\ RefSeparation(system, system.neighbors[1]) = cutoff
    /\ FirstSpecies # SecondSpecies
    /\ lj.lj_params[FirstSpecies][SecondSpecies][3] # Float(0)
    /\ EnergyOf(result) = Float(0)

(* C6: the table is symmetric in the two species, and exchanging the       *)
(* species of the two atoms of a pair leaves the returned energy unchanged.*)
C6_TableSymmetric ==
    /\ \A s_i, s_j \in DOMAIN lj.lj_params :
          lj.lj_params[s_i][s_j] = lj.lj_params[s_j][s_i]
    /\ (pc = "done" /\ Cardinality(Atoms(system)) = 2)
       => result = LJForward(lj,
                             [system EXCEPT !.species =
                                 [a \in Atoms(system) |-> system.species[1 - a]]],
                             run_options)

C6_Witness ==
    /\ pc = "done" /\ result.kind = "return" /\ Requested
    /\ Len(system.neighbors) = 1
    /\ parameters[FirstSpecies].sigma # parameters[SecondSpecies].sigma
    /\ parameters[FirstSpecies].epsilon # parameters[SecondSpecies].epsilon
    /\ IsFinite(EnergyOf(result)) /\ EnergyOf(result) # Float(0)

(* C7: the table has an entry for every ordered pair of keys of the        *)
(* per-species parameters and for nothing else, with the arithmetic mean   *)
(* of the sigmas, the geometric mean of the epsilons and the unshifted     *)
(* pair energy at the cutoff.                                              *)
C7_TableContent ==
    /\ DOMAIN lj.lj_params = DOMAIN parameters
    /\ \A s_i \in DOMAIN parameters :
        /\ DOMAIN lj.lj_params[s_i] = DOMAIN parameters
        /\ \A s_j \in DOMAIN parameters :
            LET entry == lj.lj_params[s_i][s_j]
            IN  /\ FMul(Float(2), entry[1]) =
                       FAdd(parameters[s_i].sigma, parameters[s_j].sigma)
                /\ entry[2][1] >= 0 /\ entry[2][2] > 0
                /\ FMul(entry[2], entry[2]) =
                       FMul(parameters[s_i].epsilon, parameters[s_j].epsilon)
                /\ entry[3] = RefLJ(entry[1], entry[2], Float(cutoff))

C7_Witness ==
    /\ pc = "done" /\ result.kind = "return"
    /\ Cardinality(DOMAIN lj.lj_params) = 3
    /\ \E s_i, s_j \in DOMAIN parameters :
        /\ parameters[s_i].sigma # parameters[s_j].sigma
        /\ parameters[s_i].epsilon # parameters[s_j].epsilon
        /\ lj.lj_params[s_i][s_j][3] # Float(0)

(* C8: when energy is requested and LennardJones.forward returns, its      *)
(* energy is the sum, over every supplied pair, of the shifted pair energy *)
(* at r = |pos[j] - pos[i] + S . cell|.                                    *)
C8_SumOverPairs ==
    (Requested /\ (pc = "wrapper_nn"
                     \/ (pc = "done" /\ target = "lj"
                            /\ result.kind = "return")))
    => outputs = EnergyDict(RefSum(lj, system, Len(system.neighbors)))

C8_Witness ==
    /\ pc = "done" /\ target = "lj" /\ result.kind = "return" /\ Requested
    /\ Len(system.neighbors) = MaxPairs
    /\ \E a \in DOMAIN system.neighbors :
          /\ system.neighbors[a].cell_shift # ZeroVector
          /\ RefDisplacement(system, system.neighbors[a])[1] # 0
          /\ RefPairEnergy(lj, system, system.neighbors[a]) # Float(0)
    /\ system.neighbors[1] # system.neighbors[2]
    /\ IsFinite(EnergyOf(result)) /\ EnergyOf(result) # Float(0)

(* C9: if a supplied pair has separation r == 0, the call fails with a     *)
(* NumericError and returns no record.                                     *)
C9_ZeroSeparationFails ==
    (pc = "done" /\ Requested
        /\ \E a \in DOMAIN system.neighbors :
              RefSeparation(system, system.neighbors[a]) = 0)
    => result = Raised("NumericError")

(* C10: if an atom of the system has a species outside the supported       *)
(* species, the call raises a ConfigurationError before any pair energy    *)
(* has been accumulated.                                                   *)
C10_UnsupportedSpeciesRejected ==
    (pc = "done" /\ Requested
        /\ \E a \in Atoms(system) :
              system.species[a] \notin capabilities.species)
    => /\ result = Raised("ConfigurationError")
       /\ k <= 1

(* C11: if the learned model raises (or returns a NaN or non-scalar value), *)
(* the composite fails with a ComputationError and returns no record.      *)
C11_LearnedFailureWrapped ==
    (pc = "done" /\ target = "wrapper" /\ nn_calls > 0
        /\ (result.kind = "raise"
              \/ IsNaN(SOAPForward(model, <<system>>, selected_samples)[1])))
    => result = Raised("ComputationError")

-----------------------------------------------------------------------------
(* The engine repeats calls on a few frames; the first completed call is   *)
(* remembered, with whether a different call has completed since           *)

RepeatSystems ==
    {[species |-> species, positions |-> positions, cell |-> ZeroCell,
      neighbors |-> [a \in 1..m |->
                       [first_atom |-> 0, second_atom |-> 1,
                        cell_shift |-> ZeroVector]]] :
        species \in [0..1 -> {1, 6}],
        positions \in {p \in [0..1 -> PositionChoices] :
                         p[0] = ZeroVector /\ p[1] = <<1, 0, 0>>},
        m \in 0..MaxPairs}

RepeatOptions ==
    [outputs : {{"energy"}}, selected_atoms : {None, Some(<<0>>)}]

RepeatCall ==
    /\ pc = "idle"
    /\ \E t \in {"lj", "wrapper"}, sys \in RepeatSystems,
          options \in RepeatOptions : Call(t, sys, options)

ThisCall ==
    [target |-> target, system |-> system, run_options |-> run_options]

RepeatDone ==
    /\ pc = "done"
    /\ Discard
    /\ first_call' =
         IF first_call = None
         THEN Some([call |-> ThisCall, result |-> result, between |-> FALSE])
         ELSE Some([first_call[1] EXCEPT
                      !.between = @ \/ first_call[1].call # ThisCall])
    /\ UNCHANGED <<cutoff, parameters, lj, model, calls, accumulators, training>>

NextRepeat ==
    \/ RepeatCall
    \/ LJForwardEnter
    \/ LJForwardPair
    \/ LJForwardReturn
    \/ WrapperForwardEnter
    \/ WrapperForwardNN
    \/ RepeatDone

RepeatSpec == Init /\ [][NextRepeat]_vars

(* C12: a call with the same (system, run_options) on the same module as   *)
(* the first completed call, whatever calls ran in between, ends with the  *)
(* same result as the first.                                               *)
C12_Idempotent ==
    (pc = "done" /\ first_call # None /\ first_call[1].call = ThisCall)
    => result = first_call[1].result

C12_Witness ==
    /\ pc = "done" /\ first_call # None /\ first_call[1].call = ThisCall
    /\ first_call[1].between
    /\ target = "lj" /\ Len(system.neighbors) = MaxPairs
    /\ result.kind = "return"
    /\ lj.lj_params[FirstSpecies][SecondSpecies][3] # Float(0)
    /\ EnergyOf(result) # Float(0)

(* C13: after construction no forward call changes what the model stores:  *)
(* the table, the cutoff and the neighbors list request are at every       *)
(* moment what __init__ left.                                              *)
C13_ModelStateFrozen ==
    /\ lj.lj_params = LJInit(cutoff, parameters).lj_params
    /\ lj.cutoff = Float(cutoff)
    /\ lj.neighbors = [cutoff |-> Float(cutoff), full_list |-> FALSE]
    /\ DOMAIN lj = {"cutoff", "neighbors", "lj_params"}

C13_Witness ==
    /\ pc = "done" /\ first_call # None /\ first_call[1].between
    /\ target = "wrapper" /\ result.kind = "return"
    /\ Len(system.neighbors) = MaxPairs
    /\ lj = LJInit(cutoff, parameters)

-----------------------------------------------------------------------------
(* Two threads of the engine call LennardJones.forward on the same module  *)
(* at the same time, each on its own frame; their steps interleave freely  *)

Threads == {1, 2}

ConcurrentSystems ==
    {[species |-> species, positions |-> positions, cell |-> ZeroCell,
      neighbors |-> neighbors] :
        species \in {s \in [0..1 -> {1, 6}] : s[0] = 1},
        positions \in {p \in [0..1 -> PositionChoices] :
                         p[0] = ZeroVector /\ p[1] = <<0, 2, 0>>},
        neighbors \in UNION {[1..m ->
                                {[first_atom |-> 0, second_atom |-> 1,
                                  cell_shift |-> ZeroVector],
                                 [first_atom |-> 1, second_atom |-> 0,
                                  cell_shift |-> ZeroVector]}] :
                             m \in 1..MaxPairs}}

IdleCall == [pc |-> "idle", system |-> NoSystem, run_options |-> NoOptions,
             k |-> 0, result |-> NoResult, overlapped |-> FALSE]

InitConcurrent ==
    /\ Constructed(ParameterChoices)
    /\ NoCall
    /\ first_call = None
    /\ calls = [t \in Threads |-> IdleCall]
    /\ accumulators = [t \in Threads |-> None]
    /\ NoNotebook

\* what the concurrent calls leave alone: the modules, and the variables of
\* the engine's one-call-at-a-time use
apart == <<cutoff, parameters, lj, model, pc, target, system, run_options,
           reads, list_request, selected_atoms, k, total_energy, lj_calls, nn_calls,
           outputs, selected_samples, result, first_call, training>>

\* variant: the accumulator is one tensor that all calls share
AccumulatorShared(t) == 1

\* total_energy = torch.zeros(1, ...): the tensor the call of thread t
\* creates for itself
Accumulator(t) == t

ThreadCall(t) ==
    /\ calls[t].pc = "idle"
    /\ \E sys \in ConcurrentSystems :
         calls' = [calls EXCEPT ![t] =
                     [IdleCall EXCEPT
                        !.pc = "lj", !.system = sys,
                        !.run_options = [outputs |-> {"energy"},
                                         selected_atoms |-> None]]]
    /\ UNCHANGED <<accumulators, apart>>

ThreadEnter(t) ==
    /\ calls[t].pc = "lj"
    /\ IF ~LJEnergyRequested(calls[t].run_options)
       THEN /\ calls' = [calls EXCEPT ![t].pc = "done",
                                      ![t].result = Returned(EmptyDict)]
            /\ UNCHANGED accumulators
       ELSE /\ accumulators' =
                 [accumulators EXCEPT ![Accumulator(t)] = Float(0)]
            /\ calls' = [calls EXCEPT ![t].pc = "lj_loop", ![t].k = 1]
    /\ UNCHANGED apart

ThreadPair(t) ==
    /\ calls[t].pc = "lj_loop"
    /\ calls[t].k <= Len(calls[t].system.neighbors)
    /\ LET sys == calls[t].system
           pair == sys.neighbors[calls[t].k]
       IN  IF ~Lookup(lj, sys, pair).found
           THEN /\ calls' = [calls EXCEPT ![t].pc = "done",
                                          ![t].result = Raised("KeyError")]
                /\ UNCHANGED accumulators
           ELSE /\ accumulators' =
                     [accumulators EXCEPT ![Accumulator(t)] =
                        Accumulate(@, PairTerm(lj, sys, <<>>, pair))]
                /\ calls' =
                     [calls EXCEPT
                        ![t].k = @ + 1,
                        ![t].overlapped =
                            @ \/ \E u \in Threads \ {t} :
                                    calls[u].pc = "lj_loop" /\ calls[u].k > 1]
    /\ UNCHANGED apart

ThreadReturn(t) ==
    /\ calls[t].pc = "lj_loop"
    /\ calls[t].k > Len(calls[t].system.neighbors)
    /\ calls' = [calls EXCEPT
                    ![t].pc = "done",
                    ![t].result =
                        Returned(EnergyDict(accumulators[Accumulator(t)]))]
    /\ UNCHANGED <<accumulators, apart>>

NextConcurrent ==
    \E t \in Threads :
        \/ ThreadCall(t)
        \/ ThreadEnter(t)
        \/ ThreadPair(t)
        \/ ThreadReturn(t)

ConcurrentSpec == InitConcurrent /\ [][NextConcurrent]_vars

(* C14: each of two concurrent calls on the same module, under every       *)
(* interleaving of their steps, returns what the call returns when it runs *)
(* alone.                                                                  *)
C14_ConcurrentCallsIndependent ==
    \A t \in Threads :
        calls[t].pc = "done"
        => calls[t].result =
               LJForward(lj, calls[t].system, calls[t].run_options)

C14_Witness ==
    /\ \A t \in Threads :
          /\ calls[t].pc = "done" /\ calls[t].overlapped
          /\ calls[t].result.kind = "return"
          /\ EnergyOf(calls[t].result) # Float(0)
    /\ calls[1].system # calls[2].system
    /\ EnergyOf(calls[1].result) # EnergyOf(calls[2].result)

-----------------------------------------------------------------------------
\* the orders in which a list of n pairs can be handed over
PairOrders(n) ==
    {p \in [1..n -> 1..n] : \A a, b \in 1..n : a # b => p[a] # p[b]}

(* C15: LennardJones.forward gives the same result for every order in      *)
(* which the same neighbor pairs are listed.                               *)
C15_OrderInsensitive ==
    (pc = "done" /\ target = "lj")
    => \A p \in PairOrders(Len(system.neighbors)) :
          LJForward(lj,
                    [system EXCEPT !.neighbors =
                        [a \in DOMAIN system.neighbors |->
                            system.neighbors[p[a]]]],
                    run_options) = result

C15_Witness ==
    /\ pc = "done" /\ target = "lj" /\ result.kind = "return" /\ Requested
    /\ Len(system.neighbors) = MaxPairs
    /\ RefPairEnergy(lj, system, system.neighbors[1])
          # RefPairEnergy(lj, system, system.neighbors[MaxPairs])
    /\ IsFinite(EnergyOf(result)) /\ EnergyOf(result) # Float(0)

-----------------------------------------------------------------------------
(* C17: the composite returns only what the capabilities declare: the      *)
(* declared outputs are exactly "energy", not per atom, and every          *)
(* non-empty record has the single entry "energy" holding one 1x1 value    *)
(* with one sample and one property.                                       *)
C17_OutputMatchesCapabilities ==
    /\ DOMAIN capabilities.outputs = {"energy"}
    /\ ~capabilities.outputs["energy"].per_atom
    /\ (pc = "done" /\ target = "wrapper" /\ result.kind = "return")
       => /\ DOMAIN result.value \subseteq DOMAIN capabilities.outputs
          /\ DOMAIN result.value # {}
             => /\ DOMAIN result.value = {"energy"}
                /\ LET block == result.value["energy"]
                   IN  /\ Len(block.values) = 1
                       /\ Len(block.values[1]) = 1
                       /\ Len(block.samples.values) = 1
                       /\ Len(block.properties.values) = 1
                       /\ block.properties.names = <<"energy">>
                       /\ block.components = <<>>

C17_Witness ==
    /\ pc = "done" /\ target = "wrapper" /\ result.kind = "return"
    /\ DOMAIN result.value = {"energy"}
    /\ Cardinality(Atoms(system)) = 2
    /\ Len(system.neighbors) > 0
    /\ IsFinite(EnergyOf(result))

(* C18: the species declared in the capabilities are the keys of the       *)
(* Lennard-Jones parameters united with the species of the SOAP model.     *)
C18_SpeciesUnion ==
    capabilities.species = (DOMAIN parameters) \cup model.species

C18_Witness ==
    /\ pc = "done" /\ target = "wrapper" /\ result.kind = "return" /\ Requested
    /\ Cardinality(Atoms(system)) = 2
    /\ system.species[0] # system.species[1]
    /\ \A a \in Atoms(system) : system.species[a] \in capabilities.species
    /\ DOMAIN lj.lj_params = model.species

(* C19: the neighbors list request is static: before and after every call, *)
(* whatever the call requested, requested_neighbors_lists() is the single  *)
(* request (construction cutoff, half list); forward asks the system for   *)
(* the list of exactly that request and stores no list on the model.       *)
C19_StaticNeighborsRequest ==
    LET request == [cutoff |-> Float(cutoff), full_list |-> FALSE]
    IN  /\ requested_neighbors_lists(lj) = <<request>>
        /\ list_request # None => list_request = Some(request)
        /\ "neighbors" \in reads => list_request # None
        /\ DOMAIN lj = {"cutoff", "neighbors", "lj_params"}

C19_Witness ==
    /\ pc = "done" /\ target = "wrapper" /\ result.kind = "return"
    /\ list_request = Some(lj.neighbors)
    /\ "neighbors" \in reads
    /\ Len(system.neighbors) = MaxPairs
    /\ requested_neighbors_lists(lj) = <<lj.neighbors>>

-----------------------------------------------------------------------------
(* The training notebook: the model is created and checked on frames[:1] *)

\* structures of the dataset: atoms of the model's species, no neighbors list
NotebookSystems ==
    UNION {
        {[species |-> species,
          positions |-> [a \in 0..(n - 1) |-> <<a, 0, 0>>],
          cell |-> ZeroCell, neighbors |-> <<>>] :
            species \in [0..(n - 1) -> {1, 6, 8}]}
        : n \in AtomCounts}

NotebookFrames ==
    UNION {[1..n -> NotebookSystems] : n \in 1..MaxFrames}

\* SOAPModel(SOAP_PARAMETERS, species=[1, 6, 8], energy_offset=energy_offset),
\* the offset being the mean energy of the dataset
NotebookModels ==
    {[energy_offset |-> offset, species |-> {1, 6, 8},
      weights |-> [s \in {1, 6, 8} |-> w]] :
        offset \in {-291, -290}, w \in {-1, 0, 1}}

InitNotebook ==
    /\ cutoff \in CutoffChoices
    /\ parameters \in ParameterChoices
    /\ lj = LJInit(cutoff, parameters)
    /\ model \in NotebookModels
    /\ NoCall
    /\ first_call = None
    /\ calls = <<>>
    /\ accumulators = <<>>
    /\ frames \in NotebookFrames
    /\ first_energy = <<>>
    /\ notebook = "created"
    /\ NoLoop
    /\ NoSimulation

notebook_rest ==
    <<cutoff, parameters, lj, model, pc, target, system, run_options, reads,
      list_request, selected_atoms, k, total_energy, lj_calls, nn_calls,
      outputs, selected_samples, result, first_call, calls, accumulators,
      frames, loop, simulation>>

\* first_energy = model(systems_to_torch(frames[:1]))
NotebookPredict ==
    /\ notebook = "created"
    /\ first_energy' = SOAPEnergies(model, SubSeq(frames, 1, 1), None)
    /\ notebook' = "predicted"
    /\ UNCHANGED notebook_rest

\* if torch.abs(first_energy + 290) > 1: raise Exception(...)
NotebookCheck ==
    /\ notebook = "predicted"
    /\ notebook' =
         IF FGreater(FAbs(FAdd(first_energy[1], Float(290))), Float(1))
         THEN "raised"
         ELSE "passed"
    /\ UNCHANGED <<first_energy, notebook_rest>>

NextNotebook ==
    \/ NotebookPredict
    \/ NotebookCheck

NotebookSpec == InitNotebook /\ [][NextNotebook]_vars

(* C20: SOAPModel.forward returns, for each system of its input, the sum   *)
(* of the per-atom network energies plus the energy_offset of the model,   *)
(* so that the notebook's check of the first prediction does not depend on *)
(* the network alone.                                                      *)
C20_ForwardAddsOffset ==
    notebook \in {"predicted", "passed", "raised"}
    => /\ Len(first_energy) = 1
       /\ first_energy[1] =
            FAdd(SumOver(model, frames[1], Atoms(frames[1]), Float(0)),
                 Float(model.energy_offset))

-----------------------------------------------------------------------------
\* the shifted pair terms of the pairs 1..upto closer than rc
RECURSIVE RefSumBelow(_, _, _, _)
RefSumBelow(self, sys, upto, rc) ==
    IF upto = 0 THEN Float(0)
    ELSE IF RefSeparation(sys, sys.neighbors[upto]) >= rc
         THEN RefSumBelow(self, sys, upto - 1, rc)
         ELSE FAdd(RefSumBelow(self, sys, upto - 1, rc),
                   RefPairEnergy(self, sys, sys.neighbors[upto]))

(* C21: only pairs closer than the cutoff contribute: the energy that      *)
(* LennardJones.forward returns is the sum over the supplied pairs with    *)
(* r < cutoff, a supplied pair with r >= cutoff adding nothing.            *)
C21_OnlyPairsBelowCutoff ==
    (pc = "done" /\ target = "lj" /\ Requested /\ result.kind = "return")
    => EnergyOf(result) =
          RefSumBelow(lj, system, Len(system.neighbors), cutoff)

(* C22, as stated: every composite evaluation that requests energy invokes *)
(* the LennardJones module exactly once and the learned model exactly      *)
(* once, also when one of them fails.                                      *)
C22_BothInvokedOnce ==
    (pc = "done" /\ target = "wrapper" /\ Requested)
    => lj_calls = 1 /\ nn_calls = 1

(* C22, amended: in a composite evaluation that requests energy the        *)
(* LennardJones module is invoked exactly once and never again; the        *)
(* learned model is invoked at most once, only after the LennardJones      *)
(* module has returned its energy, and exactly once unless the             *)
(* LennardJones module raised, in which case it is not invoked at all.     *)
C22_OnceEachInOrder ==
    (target = "wrapper" /\ Requested)
    => /\ lj_calls <= 1 /\ nn_calls <= 1
       /\ pc # "wrapper" => lj_calls = 1
       /\ nn_calls = 1 => lj_calls = 1 /\ "energy" \in DOMAIN outputs
       /\ pc = "done"
          => (nn_calls = 1
                <=> LJForward(lj, system, run_options).kind = "return")

C22_Witness ==
    /\ pc = "done" /\ target = "wrapper" /\ Requested
    /\ result.kind = "return"
    /\ lj_calls = 1 /\ nn_calls = 1
    /\ Len(system.neighbors) = MaxPairs
    /\ k = MaxPairs + 1

-----------------------------------------------------------------------------
(* The training cell, executed again and again *)

InitTrain ==
    /\ Constructed(ParameterChoices)
    /\ NoCall
    /\ first_call = None
    /\ calls = <<>>
    /\ accumulators = <<>>
    /\ frames = <<>>
    /\ first_energy = <<>>
    /\ notebook = "closed"
    /\ epoch = -1
    /\ start = None
    /\ train \in {NoTraining(n) : n \in {Notebook1Epochs, Notebook3Epochs}}
    /\ NoSimulation

train_rest ==
    <<cutoff, parameters, lj, model, pc, target, system, run_options, reads,
      list_request, selected_atoms, k, total_energy, lj_calls, nn_calls,
      outputs, selected_samples, result, first_call, calls, accumulators,
      frames, first_energy, notebook, simulation>>

\* variant: start = epoch
StartAtSame(e) == e

\* start = epoch + 1
StartAt(e) == e + 1

\* the cell is executed: start = epoch + 1, and range(start, start + n)
TrainCell ==
    /\ train.pc = "idle"
    /\ train.runs < MaxExecutions
    /\ start' = Some(StartAt(epoch))
    /\ train' = [train EXCEPT !.pc = "for", !.next = StartAt(epoch)]
    /\ UNCHANGED <<epoch, train_rest>>

\* for epoch in range(start, start + n): the next value, or the end
TrainFor ==
    /\ train.pc = "for"
    /\ IF train.next < start[1] + train.n
       THEN /\ epoch' = train.next
            /\ train' = [train EXCEPT !.pc = "zero_grad", !.next = @ + 1,
                                      !.steps = <<>>]
       ELSE /\ train' = [train EXCEPT !.pc = "idle", !.runs = @ + 1]
            /\ UNCHANGED epoch
    /\ UNCHANGED <<start, train_rest>>

\* one statement of the body
TrainDo(at, then) ==
    /\ train.pc = at
    /\ train' = [train EXCEPT
                    !.pc = then,
                    !.steps = Append(@, at),
                    !.printed = IF at = "loss" THEN Append(@, epoch) ELSE @]
    /\ UNCHANGED <<epoch, start, train_rest>>

\* optimizer.zero_grad()
TrainZeroGrad ==
    /\ train.pc = "zero_grad"
    /\ TrainDo("zero_grad", "forward")

\* predicted_energies = model(systems)
TrainForward ==
    /\ train.pc = "forward"
    /\ TrainDo("forward", "loss")

\* loss = mse_loss(...); print(f"loss at epoch {epoch} is", loss.item())
TrainLoss ==
    /\ train.pc = "loss"
    /\ TrainDo("loss", "backward")

\* loss.backward()
TrainBackward ==
    /\ train.pc = "backward"
    /\ TrainDo("backward", "step")

\* optimizer.step()
TrainStep ==
    /\ train.pc = "step"
    /\ TrainDo("step", "for")

NextTrain ==
    \/ TrainCell
    \/ TrainFor
    \/ TrainZeroGrad
    \/ TrainForward
    \/ TrainLoss
    \/ TrainBackward
    \/ TrainStep

TrainSpec == InitTrain /\ [][NextTrain]_vars

\* the order of the statements of one iteration
IterationOrder == <<"zero_grad", "forward", "loss", "backward", "step">>

(* C23: starting from epoch = -1, every execution of the training cell     *)
(* performs exactly N iterations (15 or 75), each doing zero_grad,         *)
(* forward, loss, backward, step in that order; the epoch numbers are      *)
(* consecutive from 0 across executions without gap or repeat, and after   *)
(* k executions epoch = k * N - 1.                                         *)
C23_TrainingSequence ==
    /\ train.n \in {15, 75}
    /\ train.pc = "idle" => /\ epoch = train.runs * train.n - 1
                            /\ Len(train.printed) = train.runs * train.n
    /\ train.pc # "idle" => start = Some(train.runs * train.n)
    /\ train.printed = [i \in 1..Len(train.printed) |-> i - 1]
    /\ train.steps = SubSeq(IterationOrder, 1, Len(train.steps))
    /\ \A i \in 1..5 :
          train.pc = IterationOrder[i]
          => /\ Len(train.steps) = i - 1
             /\ epoch = Len(train.printed) - (IF i > 3 THEN 1 ELSE 0)
    /\ (train.pc = "for" /\ train.next > start[1]) => Len(train.steps) = 5

C23_Witness ==
    /\ train.pc = "idle"
    /\ train.runs = 2
    /\ train.n = 75
    /\ epoch = 149
    /\ Len(train.printed) = 150

-----------------------------------------------------------------------------
(* The LAMMPS notebook: ASE writes the data file, LAMMPS reads the input *)

\* ase.io.write(..., format="lammps-data", specorder=["H", "C", "O"])
specorder == <<"H", "C", "O">>

\* the structures the data file is written from
Frames ==
    UNION {[1..n -> {"H", "C", "O"}] : n \in 1..MaxAtoms}

\* variant: the pair_coeff lines of carbon and oxygen name each other's species
LAMMPS_INPUT_SWAPPED ==
    <<[cmd |-> "read_data"],
      [cmd |-> "mass", type |-> 1, mass |-> 1008],
      [cmd |-> "mass", type |-> 2, mass |-> 12011],
      [cmd |-> "mass", type |-> 3, mass |-> 15999],
      [cmd |-> "pair_style", style |-> "metatensor"],
      [cmd |-> "pair_coeff", i |-> 1, j |-> 1, species |-> 1],
      [cmd |-> "pair_coeff", i |-> 2, j |-> 2, species |-> 8],
      [cmd |-> "pair_coeff", i |-> 3, j |-> 3, species |-> 6],
      [cmd |-> "run"]>>

\* the commands of LAMMPS_INPUT that set up the potential, in the order of
\* the script; masses are in thousandths of a mass unit
LAMMPS_INPUT ==
    <<[cmd |-> "read_data"],
      [cmd |-> "mass", type |-> 1, mass |-> 1008],
      [cmd |-> "mass", type |-> 2, mass |-> 12011],
      [cmd |-> "mass", type |-> 3, mass |-> 15999],
      [cmd |-> "pair_style", style |-> "metatensor"],
      [cmd |-> "pair_coeff", i |-> 1, j |-> 1, species |-> 1],
      [cmd |-> "pair_coeff", i |-> 2, j |-> 2, species |-> 6],
      [cmd |-> "pair_coeff", i |-> 3, j |-> 3, species |-> 8],
      [cmd |-> "run"]>>

InitLammps ==
    /\ Constructed(ParameterChoices)
    /\ NoCall
    /\ first_call = None
    /\ calls = <<>>
    /\ accumulators = <<>>
    /\ frames = <<>>
    /\ first_energy = <<>>
    /\ notebook = "closed"
    /\ NoLoop
    /\ frame \in Frames
    /\ lammps = NoLammps

lammps_rest ==
    <<cutoff, parameters, lj, model, pc, target, system, run_options, reads,
      list_request, selected_atoms, k, total_energy, lj_calls, nn_calls,
      outputs, selected_samples, result, first_call, calls, accumulators,
      frames, first_energy, notebook, loop, frame>>

\* the type ASE writes for a symbol: its place in specorder
TypeOf(symbol) == CHOOSE t \in DOMAIN specorder : specorder[t] = symbol

\* the data file: one type per entry of specorder, each atom with its type
AseWrite ==
    /\ lammps.pc = "write"
    /\ lammps' = [lammps EXCEPT
                     !.pc = "input",
                     !.ntypes = Len(specorder),
                     !.types = [a \in DOMAIN frame |-> TypeOf(frame[a])]]
    /\ UNCHANGED lammps_rest

Command == LAMMPS_INPUT[lammps.line]

\* read_data propenol.lmp
LammpsReadData ==
    /\ lammps.pc = "input" /\ Command.cmd = "read_data"
    /\ lammps' = [lammps EXCEPT
                     !.line = @ + 1,
                     !.masses = [t \in 1..lammps.ntypes |-> None],
                     !.coeffs = [t \in 1..lammps.ntypes |-> <<>>]]
    /\ UNCHANGED lammps_rest

\* mass <type> <mass>
LammpsMass ==
    /\ lammps.pc = "input" /\ Command.cmd = "mass"
    /\ lammps' =
         IF Command.type \in DOMAIN lammps.masses
         THEN [lammps EXCEPT !.line = @ + 1,
                             !.masses[Command.type] = Some(Command.mass)]
         ELSE [lammps EXCEPT !.pc = "error"]
    /\ UNCHANGED lammps_rest

\* pair_style metatensor ../propenol-model-with-lj.pt
LammpsPairStyle ==
    /\ lammps.pc = "input" /\ Command.cmd = "pair_style"
    /\ lammps' = [lammps EXCEPT !.line = @ + 1,
                                !.pair_style = Some(Command.style)]
    /\ UNCHANGED lammps_rest

\* pair_coeff <type> <type> <species>: one more line for the type
LammpsPairCoeff ==
    /\ lammps.pc = "input" /\ Command.cmd = "pair_coeff"
    /\ lammps' =
         IF /\ lammps.pair_style # None
            /\ Command.i = Command.j
            /\ Command.i \in DOMAIN lammps.coeffs
         THEN [lammps EXCEPT !.line = @ + 1,
                             !.coeffs[Command.i] = Append(@, Command.species)]
         ELSE [lammps EXCEPT !.pc = "error"]
    /\ UNCHANGED lammps_rest

\* run: every type needs its mass and its species; the model is then
\* handed, for each atom, the species of the last pair_coeff of its type
LammpsRun ==
    /\ lammps.pc = "input" /\ Command.cmd = "run"
    /\ lammps' =
         IF \A t \in 1..lammps.ntypes :
               lammps.masses[t] # None /\ lammps.coeffs[t] # <<>>
         THEN [lammps EXCEPT
                 !.pc = "running",
                 !.species =
                    [a \in DOMAIN lammps.types |->
                        LET lines == lammps.coeffs[lammps.types[a]]
                        IN  lines[Len(lines)]]]
         ELSE [lammps EXCEPT !.pc = "error"]
    /\ UNCHANGED lammps_rest

NextLammps ==
    \/ AseWrite
    \/ LammpsReadData
    \/ LammpsMass
    \/ LammpsPairStyle
    \/ LammpsPairCoeff
    \/ LammpsRun

LammpsSpec == InitLammps /\ [][NextLammps]_vars

\* atomic number and standard atomic mass (in thousandths) of an element
AtomicNumber(symbol) ==
    IF symbol = "H" THEN 1 ELSE IF symbol = "C" THEN 6 ELSE 8

StandardMass(symbol) ==
    IF symbol = "H" THEN 1008 ELSE IF symbol = "C" THEN 12011 ELSE 15999

(* C24: the LAMMPS input maps atom types to species as the data file       *)
(* numbers them: the types 1, 2, 3 of H, C, O get the masses 1.008,        *)
(* 12.011, 15.999 and the species 1, 6, 8; every type has exactly one      *)
(* pair_coeff line, and every species handed to the model is one the       *)
(* capabilities declare.                                                   *)
C24_TypesMatchSpecies ==
    /\ lammps.pc # "error"
    /\ lammps.pc = "running"
       => /\ lammps.ntypes = 3
          /\ \A t \in 1..lammps.ntypes :
                /\ Len(lammps.coeffs[t]) = 1
                /\ lammps.coeffs[t][1] = AtomicNumber(<<"H", "C", "O">>[t])
                /\ lammps.coeffs[t][1] \in capabilities.species
                /\ lammps.masses[t] =
                      Some(StandardMass(<<"H", "C", "O">>[t]))
          /\ \A a \in DOMAIN frame :
                /\ lammps.species[a] = AtomicNumber(frame[a])
                /\ lammps.species[a] \in capabilities.species
                /\ lammps.masses[lammps.types[a]]
                      = Some(StandardMass(frame[a]))

C24_Witness ==
    /\ lammps.pc = "running"
    /\ Len(frame) = 3
    /\ {frame[a] : a \in DOMAIN frame} = {"H", "C", "O"}
    /\ frame[1] = "O"
    /\ lammps.species = <<8>> \o SubSeq(lammps.species, 2, 3)

-----------------------------------------------------------------------------
\* the same pair listed from its other end: (j, i, -S) for (i, j, S)
Flipped(pair) ==
    [first_atom |-> pair.second_atom, second_atom |-> pair.first_atom,
     cell_shift |-> [c \in Axes |-> -pair.cell_shift[c]]]

(* C25: the orientation of a pair does not matter: listing any one pair    *)
(* (i, j, S) as (j, i, -S) leaves the result of LennardJones.forward       *)
(* unchanged.                                                              *)
C25_OrientationIgnored ==
    (pc = "done" /\ target = "lj")
    => \A a \in DOMAIN system.neighbors :
          LJForward(lj, [system EXCEPT !.neighbors[a] = Flipped(@)],
                    run_options) = result

C25_Witness ==
    /\ pc = "done" /\ target = "lj" /\ result.kind = "return" /\ Requested
    /\ Len(system.neighbors) = MaxPairs
    /\ \E a \in DOMAIN system.neighbors :
          /\ system.neighbors[a].cell_shift # ZeroVector
          /\ system.species[system.neighbors[a].first_atom]
                # system.species[system.neighbors[a].second_atom]
          /\ RefPairEnergy(lj, system, system.neighbors[a]) # Float(0)
    /\ IsFinite(EnergyOf(result)) /\ EnergyOf(result) # Float(0)

(* C26: when energy is requested and the supplied neighbors list is empty, *)
(* LennardJones.forward returns a record whose "energy" entry is exactly   *)
(* 0: neither an empty mapping nor an error.                               *)
C26_EmptyListGivesZero ==
    (pc = "done" /\ target = "lj" /\ Requested /\ system.neighbors = <<>>)
    => /\ result.kind = "return"
       /\ DOMAIN result.value = {"energy"}
       /\ result.value["energy"].values = <<<<Float(0)>>>>

C26_Witness ==
    /\ pc = "done" /\ target = "lj" /\ Requested /\ system.neighbors = <<>>
    /\ Cardinality(Atoms(system)) = 2
    /\ system.positions[1] = <<0, 2, 0>> /\ cutoff = 1
    /\ result = Returned(EnergyDict(Float(0)))

-----------------------------------------------------------------------------
\* the ways of splitting a set of atoms into disjoint non-empty domains
Partitions(S) ==
    {P \in SUBSET (SUBSET S \ {{}}) :
        /\ UNION P = S
        /\ \A A, B \in P : A # B => A \cap B = {}}

\* the atoms of a domain as the list an engine passes for selected_atoms
RECURSIVE Listed(_)
Listed(S) ==
    IF S = {} THEN <<>>
    ELSE LET atom == CHOOSE a \in S : \A b \in S : a <= b
         IN  <<atom>> \o Listed(S \ {atom})

\* the energy ExportWrapper.forward returns for one selection when both of
\* its sub-models return
CompositeEnergy(sys, selection) ==
    LET options == [outputs |-> {"energy"}, selected_atoms |-> selection]
        lj_energy == LJForward(lj, sys, options).value["energy"]
        nn_energy == SOAPForward(model, <<sys>>, SelectedSamples(options))
    IN  WrapperEnergy(lj_energy, nn_energy)["energy"].values[1][1]

RECURSIVE DomainsEnergy(_, _)
DomainsEnergy(sys, domains) ==
    IF domains = {} THEN Float(0)
    ELSE LET domain == CHOOSE d \in domains : TRUE
         IN  FAdd(CompositeEnergy(sys, Some(Listed(domain))),
                  DomainsEnergy(sys, domains \ {domain}))

=============================================================================
